---- MODULE Spec2Model ----
(***************************************************************************)
(* Model of the API-key store (DatabaseManager), the request gate          *)
(* (ApiKeyMiddleware) and the server start-up (MCPServer) of my_server.py. *)
(* Several server processes share one SQLite database file.                *)
(*                                                                         *)
(* Strings are sequences of one-character strings, so that str.lower()     *)
(* and string equality are computed and not assumed.                       *)
(***************************************************************************)
EXTENDS Naturals, Sequences, FiniteSets

\* Largest number of entries of a request's header mapping.
MaxHeaders == 2

\* The server processes that share the database file.
Procs == {"p1", "p2"}

\* Python's None. No string of the model is the one-element sequence <<"None">>,
\* whose element is not a single character.
None == <<"None">>

NoProc == "none"

----------------------------------------------------------------------------
\* Strings

UpperChars == <<"A","B","C","D","E","F","G","H","I","J","K","L","M",
                "N","O","P","Q","R","S","T","U","V","W","X","Y","Z">>
LowerChars == <<"a","b","c","d","e","f","g","h","i","j","k","l","m",
                "n","o","p","q","r","s","t","u","v","w","x","y","z">>

\* One character of str.lower().
LowerChar(c) ==
    IF \E i \in DOMAIN UpperChars : UpperChars[i] = c
    THEN LowerChars[CHOOSE i \in DOMAIN UpperChars : UpperChars[i] = c]
    ELSE c

\* str.lower(): k.lower() of the dict comprehension.
Lower(s) == [i \in DOMAIN s |-> LowerChar(s[i])]

\* The literal "x-api-key" the gate looks up.
CredentialKey == <<"x","-","a","p","i","-","k","e","y">>

\* Header names a request may carry: casings of the credential header and
\* one unrelated header.
NameCanonical == <<"X","-","A","P","I","-","K","e","y">>
NameLower     == <<"x","-","a","p","i","-","k","e","y">>
NameMixed     == <<"X","-","A","p","i","-","K","e","y">>
NameUpper     == <<"X","-","A","P","I","-","K","E","Y">>
NameAccept    == <<"A","c","c","e","p","t">>
HeaderNames == {NameCanonical, NameLower, NameMixed, NameUpper, NameAccept}

\* Tokens secrets.token_urlsafe(32) may produce (two that differ only in
\* case); never the empty string.
TokenA == <<"k","1">>
TokenB == <<"K","1">>
GenTokens == {TokenA, TokenB}

\* Header values a request may carry: the tokens, a padded token, the empty
\* string.
TokenPadded == <<"k","1"," ">>
EmptyStr == <<>>
HeaderValues == GenTokens \cup {TokenPadded, EmptyStr}

\* Values a continuation (call_next) may return.
ResultSuccess == <<"s","u","c","c","e","s","s">>
ResultAuthenticated == <<"a","u","t","h","e","n","t","i","c","a","t","e","d">>
NextResults == {ResultSuccess, ResultAuthenticated}
NoResult == None

----------------------------------------------------------------------------
\* Header mappings (Python dicts: insertion-ordered, names distinct)

HeaderMaps ==
    { h \in UNION { [1..n -> HeaderNames \X HeaderValues] : n \in 0..MaxHeaders } :
        \A i, j \in DOMAIN h : i # j => h[i][1] # h[j][1] }

\* {k.lower(): v for k, v in headers.items()}: a later entry replaces an
\* earlier one with the same lowered name.
RECURSIVE HeadersLowerUpTo(_, _)
HeadersLowerUpTo(h, n) ==
    IF n = 0 THEN << >>
    ELSE LET prev == HeadersLowerUpTo(h, n - 1)
             k == Lower(h[n][1])
         IN  IF \E i \in DOMAIN prev : prev[i][1] = k
             THEN [i \in DOMAIN prev |->
                     IF prev[i][1] = k THEN <<k, h[n][2]>> ELSE prev[i]]
             ELSE Append(prev, <<k, h[n][2]>>)

HeadersLower(h) == HeadersLowerUpTo(h, Len(h))

\* dict.get(key): the value, or None.
DictGet(d, key) ==
    IF \E i \in DOMAIN d : d[i][1] = key
    THEN d[CHOOSE i \in DOMAIN d : d[i][1] = key][2]
    ELSE None

\* ExtractApiKey as headers.get("X-API-Key"), with no lowering of the names.
ExtractApiKeyExactCase(h) == DictGet(h, NameCanonical)

\* Lines 161-162: the api_key the gate extracts from the request's headers.
ExtractApiKey(h) == DictGet(HeadersLower(h), CredentialKey)

----------------------------------------------------------------------------
\* The api_keys table: rows [id, key] in insertion order

\* SELECT COUNT(*) FROM api_keys
CountRows(rows) == Len(rows)

\* NeedsDefaultKey without the emptiness test.
NeedsDefaultKeyAlways(n) == TRUE

\* Line 84: if row[0] == 0.
NeedsDefaultKey(n) == n = 0

\* TokenUrlsafe asked for zero bytes, which yields the empty string.
TokenUrlsafeMayBeEmpty == GenTokens \cup {EmptyStr}

\* Line 85: secrets.token_urlsafe(32).
TokenUrlsafe == GenTokens

\* SelectKey with a case-insensitive comparison (COLLATE NOCASE).
SelectKeyNoCase(rows, k) ==
    LET hits == SelectSeq(rows, LAMBDA r : Lower(r.key) = Lower(k))
    IN  [i \in DOMAIN hits |-> <<"1">>]

\* SelectKey that compares the first row only.
SelectKeyFirstRow(rows, k) ==
    IF rows # << >> /\ rows[1].key = k THEN << <<"1">> >> ELSE << >>

\* SELECT 1 FROM api_keys WHERE key = ?  (BINARY collation: exact equality)
SelectKey(rows, k) ==
    LET hits == SelectSeq(rows, LAMBDA r : r.key = k)
    IN  [i \in DOMAIN hits |-> <<"1">>]

\* cursor.fetchone(): the first row of the result set, or None.
FetchOne(rs) == IF rs = << >> THEN None ELSE Head(rs)

\* UniqueViolation of a key column declared without UNIQUE.
UniqueViolationNever(rows, k) == FALSE

\* INSERT INTO api_keys (key) VALUES (?): AUTOINCREMENT id, UNIQUE key.
UniqueViolation(rows, k) == \E i \in DOMAIN rows : rows[i].key = k

\* InsertRow that overwrites the stored rows (INSERT OR REPLACE of row 1).
InsertRowReplacing(rows, k) == << [id |-> 1, key |-> k] >>

InsertRow(rows, k) == Append(rows, [id |-> Len(rows) + 1, key |-> k])

Keys(rows) == { rows[i].key : i \in DOMAIN rows }

----------------------------------------------------------------------------
VARIABLES
    db,          \* committed rows of api_keys
    tableExists, \* whether CREATE TABLE has been committed
    writer,      \* the process holding SQLite's write lock, or NoProc
    pend,        \* per process: the key of its uncommitted INSERT, or None
    pc,          \* per process: its position in MCPServer / on_request
    count,       \* per process: row[0] of the COUNT(*) of its init_db call
    printed,     \* per process: the key its init_db printed, or None
    initError,   \* per process: the exception its init_db raised, or "None"
    server,      \* per process: its MCPServer object
    reachable,   \* whether the database file can be opened, read and written
    cli,         \* the MCPClient call in progress
    last,        \* the server and the outcome of the request answered last
    req          \* per process: the request it handles or handled last:
                 \*   headers     get_http_headers()
                 \*   api_key     the extracted credential, or None
                 \*   vargs       the arguments of its validate_key calls
                 \*   vresults    what those calls returned
                 \*   storage     the storage operations of those calls
                 \*   calls       how often call_next was invoked
                 \*   downstream  what call_next returned
                 \*   outcome     "pending", "returned" or the exception
                 \*   response    what on_request returned

vars == <<db, tableExists, writer, pend, pc, count, printed, initError,
          server, reachable, cli, last, req>>

\* No request received yet.
NoReq == [ headers    |-> << >>,
           api_key    |-> None,
           vargs      |-> << >>,
           vresults   |-> << >>,
           storage    |-> << >>,
           calls      |-> 0,
           downstream |-> NoResult,
           outcome    |-> "none",
           response   |-> NoResult ]

\* The MCPServer object before MCPServer.__init__ has run: no init_db call
\* made, no FastMCP server, no middleware, no tool. steps lists what
\* __init__ has done so far, in order.
NoServer == [ initCalls  |-> 0,
              mcp        |-> FALSE,
              middleware |-> << >>,
              tools      |-> << >>,
              steps      |-> << >> ]

GateName == "ApiKeyMiddleware"
GreetTool == "greet"

\* CallInitDb that leaves init_db out of the construction.
CallInitDbSkipped(s) == s

\* Line 201: self.db_manager.init_db().
CallInitDb(s) == [s EXCEPT !.initCalls = @ + 1,
                           !.steps = Append(@, "init_db")]

\* Line 203: self.mcp = FastMCP(name).
NewFastMCP(s) == [s EXCEPT !.mcp = TRUE, !.steps = Append(@, "FastMCP")]

\* AddMiddleware that registers nothing.
AddMiddlewareSkipped(s) == s

\* Line 204: self.mcp.add_middleware(ApiKeyMiddleware(self.db_manager)).
AddMiddleware(s) == [s EXCEPT !.middleware = Append(@, GateName),
                              !.steps = Append(@, "add_middleware")]

\* Lines 205 and 214-225: _register_tools registers greet.
RegisterTools(s) == [s EXCEPT !.tools = Append(@, GreetTool),
                              !.steps = Append(@, "tool")]

\* Lines 203-205, after init_db has returned.
Construct(s) == RegisterTools(AddMiddleware(NewFastMCP(s)))

\* No MCPClient call made yet. entry is the method the caller entered
\* (call_tool, greet or run), args the parsed command line of run, stdout
\* the lines printed.
NoCall == [ phase     |-> "idle",
            url       |-> "none",
            api_key   |-> None,
            transport |-> [url |-> "none", headers |-> << >>],
            tool_name |-> "none",
            arguments |-> << >>,
            sent      |-> << >>,
            remote    |-> NoResult,
            result    |-> NoResult,
            error     |-> "None",
            entry     |-> "call_tool",
            args      |-> [url |-> "none", api_key |-> None, name |-> None],
            stdout    |-> << >> ]

\* No request answered yet.
NoLast == [ proc |-> NoProc, outcome |-> "none" ]

Init ==
    /\ server = [p \in Procs |-> NoServer]
    /\ reachable = TRUE
    /\ cli = NoCall
    /\ last = NoLast
    /\ db = << >>
    /\ tableExists = FALSE
    /\ writer = NoProc
    /\ pend = [p \in Procs |-> None]
    /\ pc = [p \in Procs |-> "start"]
    /\ count = [p \in Procs |-> 0]
    /\ printed = [p \in Procs |-> None]
    /\ initError = [p \in Procs |-> "None"]
    /\ req = [p \in Procs |-> NoReq]

----------------------------------------------------------------------------
\* DatabaseManager.init_db, called by MCPServer.__init__

\* Lines 77-82: connect and CREATE TABLE IF NOT EXISTS.
InitCreate(p) ==
    /\ pc[p] = "start"
    /\ reachable
    /\ tableExists' = TRUE
    /\ pc' = [pc EXCEPT ![p] = "created"]
    /\ server' = [server EXCEPT ![p] = CallInitDb(@)]
    /\ UNCHANGED <<db, writer, pend, count, printed, initError, req>>
    /\ UNCHANGED <<reachable, cli, last>>

\* Lines 83-84: SELECT COUNT(*) reads the committed rows.
InitCount(p) ==
    /\ pc[p] = "created"
    /\ reachable
    /\ count' = [count EXCEPT ![p] = CountRows(db)]
    /\ pc' = [pc EXCEPT ![p] =
          IF NeedsDefaultKey(CountRows(db)) THEN "empty" ELSE "commit"]
    /\ UNCHANGED <<db, tableExists, writer, pend, printed, initError, req>>
    /\ UNCHANGED <<server, reachable, cli, last>>

\* Lines 85-87: generate a token and INSERT it. The INSERT opens a
\* transaction and takes the write lock; a UNIQUE violation raises
\* IntegrityError, the connection is closed and the exception leaves
\* MCPServer.__init__.
InitInsert(p) ==
    /\ pc[p] = "empty"
    /\ reachable
    /\ writer = NoProc
    /\ \E k \in TokenUrlsafe :
         IF UniqueViolation(db, k)
         THEN /\ pc' = [pc EXCEPT ![p] = "failed"]
              /\ initError' = [initError EXCEPT ![p] = "IntegrityError"]
              /\ UNCHANGED <<writer, pend, printed>>
         ELSE /\ writer' = p
              /\ pend' = [pend EXCEPT ![p] = k]
              /\ printed' = [printed EXCEPT ![p] = k]
              /\ pc' = [pc EXCEPT ![p] = "commit"]
              /\ UNCHANGED initError
    /\ UNCHANGED <<db, tableExists, count, req>>
    /\ UNCHANGED <<server, reachable, cli, last>>

\* Line 86 while another connection holds the write lock past the busy
\* timeout: OperationalError (database is locked).
InitInsertBusy(p) ==
    /\ pc[p] = "empty"
    /\ reachable
    /\ writer \notin {NoProc, p}
    /\ pc' = [pc EXCEPT ![p] = "failed"]
    /\ initError' = [initError EXCEPT ![p] = "OperationalError"]
    /\ UNCHANGED <<db, tableExists, writer, pend, count, printed, req>>
    /\ UNCHANGED <<server, reachable, cli, last>>

\* Lines 88-90 and 203-205: commit, close; then the server is created and
\* the gate and the tools are registered.
InitCommit(p) ==
    /\ pc[p] = "commit"
    /\ reachable
    /\ db' = IF pend[p] # None THEN InsertRow(db, pend[p]) ELSE db
    /\ writer' = IF writer = p THEN NoProc ELSE writer
    /\ pend' = [pend EXCEPT ![p] = None]
    /\ count' = [count EXCEPT ![p] = 0]
    /\ pc' = [pc EXCEPT ![p] = "serving"]
    /\ server' = [server EXCEPT ![p] = Construct(@)]
    /\ UNCHANGED <<tableExists, printed, initError, req>>
    /\ UNCHANGED <<reachable, cli, last>>

\* The process ends and a new one is started on the same database file.
Restart(p) ==
    /\ pc[p] \in {"serving", "failed"}
    /\ pc' = [pc EXCEPT ![p] = "start"]
    /\ count' = [count EXCEPT ![p] = 0]
    /\ printed' = [printed EXCEPT ![p] = None]
    /\ initError' = [initError EXCEPT ![p] = "None"]
    /\ req' = [req EXCEPT ![p] = NoReq]
    /\ server' = [server EXCEPT ![p] = NoServer]
    /\ UNCHANGED <<db, tableExists, writer, pend>>
    /\ UNCHANGED <<reachable, cli, last>>

----------------------------------------------------------------------------
\* DatabaseManager.validate_key and ApiKeyMiddleware.on_request

\* SkipsStorage with the None test missing.
SkipsStorageNever(api_key) == FALSE

\* Line 105: the early return that skips the storage.
SkipsStorage(api_key) == api_key = None

\* RowFound with the test inverted (row is None).
RowFoundInverted(row) == row = None

\* Line 115: return row is not None.
RowFound(row) == row # None

\* Rejects with the test dropped: the gate never raises.
RejectsNever(valid) == FALSE

\* Line 164: if not self.db_manager.validate_key(api_key).
Rejects(valid) == ~valid

\* PassThrough that replaces the continuation's result by a fixed one.
PassThroughFixed(r) == ResultSuccess

\* Line 167: return await call_next(context).
PassThrough(r) == r

UnauthorizedError == "ToolError: Unauthorized: Invalid or missing API Key"

\* Propagates that turns every exception of validate_key into a rejection.
PropagatesAsRejection(e) == UnauthorizedError

\* Lines 164-165: on_request has no handler around validate_key, so an
\* exception of validate_key leaves on_request as it is.
Propagates(e) == e

\* Lines 157-165 and 105-108: the gate handles a request whose headers are
\* h: it extracts the credential and calls validate_key, which answers False
\* for None and otherwise connects to the database.
Receive(p, h) ==
    /\ pc[p] = "serving"
    /\ LET k == ExtractApiKey(h)
           r == [NoReq EXCEPT !.headers = h, !.api_key = k, !.vargs = <<k>>]
       IN  IF SkipsStorage(k)
           THEN /\ req' = [req EXCEPT ![p] =
                      [r EXCEPT !.vresults = <<FALSE>>,
                                !.calls = IF Rejects(FALSE) THEN 0 ELSE 1,
                                !.outcome = IF Rejects(FALSE)
                                            THEN UnauthorizedError
                                            ELSE "pending"]]
                /\ pc' = [pc EXCEPT ![p] =
                      IF Rejects(FALSE) THEN "done" ELSE "next"]
           ELSE IF reachable
           THEN /\ req' = [req EXCEPT ![p] =
                      [r EXCEPT !.storage = <<"connect">>,
                                !.outcome = "pending"]]
                /\ pc' = [pc EXCEPT ![p] = "query"]
           ELSE /\ req' = [req EXCEPT ![p] =
                      [r EXCEPT !.storage = <<"connect">>,
                                !.outcome = Propagates("OperationalError")]]
                /\ pc' = [pc EXCEPT ![p] = "done"]
    /\ UNCHANGED <<db, tableExists, writer, pend, count, printed, initError>>
    /\ UNCHANGED <<server, reachable, cli, last>>

\* A request with any header mapping (get_http_headers(), line 157).
Request(p) == \E h \in HeaderMaps : Receive(p, h)

\* The header mapping MCPClient.call_tool sends.
ClientHeaders(api_key) == << <<NameCanonical, api_key>> >>

\* A request sent by an MCPClient whose api_key is any header value.
ClientRequest(p) == \E k \in HeaderValues : Receive(p, ClientHeaders(k))

\* Lines 109-115 and 164-167: the SELECT reads the committed rows, the
\* connection is closed, and the gate raises or invokes call_next.
ValidateQuery(p) ==
    /\ pc[p] = "query"
    /\ IF ~tableExists \/ ~reachable
       THEN /\ req' = [req EXCEPT ![p].storage = @ \o <<"select", "close">>,
                                  ![p].outcome =
                                      Propagates("OperationalError")]
            /\ pc' = [pc EXCEPT ![p] = "done"]
       ELSE LET valid == RowFound(FetchOne(SelectKey(db, req[p].api_key)))
            IN  /\ req' = [req EXCEPT
                       ![p].storage = @ \o <<"select", "close">>,
                       ![p].vresults = <<valid>>,
                       ![p].calls = IF Rejects(valid) THEN 0 ELSE 1,
                       ![p].outcome = IF Rejects(valid)
                                      THEN UnauthorizedError
                                      ELSE "pending"]
                /\ pc' = [pc EXCEPT ![p] =
                       IF Rejects(valid) THEN "done" ELSE "next"]
    /\ UNCHANGED <<db, tableExists, writer, pend, count, printed, initError>>
    /\ UNCHANGED <<server, reachable, cli, last>>

\* Line 167: the continuation returns and on_request returns its result.
CallNextReturns(p) ==
    /\ pc[p] = "next"
    /\ \E r \in NextResults :
         req' = [req EXCEPT ![p].downstream = r,
                            ![p].response = PassThrough(r),
                            ![p].outcome = "returned"]
    /\ pc' = [pc EXCEPT ![p] = "done"]
    /\ UNCHANGED <<db, tableExists, writer, pend, count, printed, initError>>
    /\ UNCHANGED <<server, reachable, cli, last>>

\* The result or the exception of on_request has reached the caller.
Respond(p) ==
    /\ pc[p] = "done"
    /\ req' = [req EXCEPT ![p] = NoReq]
    /\ pc' = [pc EXCEPT ![p] = "serving"]
    /\ UNCHANGED <<db, tableExists, writer, pend, count, printed, initError>>
    /\ UNCHANGED <<server, reachable, cli, last>>

----------------------------------------------------------------------------
\* The gate variant of auth.py

\* auth.py line 9: the hard-coded key "your-secret-api-key".
SecretKey == <<"y","o","u","r","-","s","e","c","r","e","t","-",
               "a","p","i","-","k","e","y">>

\* AuthApiKey that lowers the header names first, as my_server.py does.
AuthApiKeyLowered(h) == DictGet(HeadersLower(h), CredentialKey)

\* auth.py line 6: api_key = headers.get("X-API-Key").
AuthApiKey(h) == DictGet(h, NameCanonical)

\* auth.py line 9: if api_key != "your-secret-api-key".
AuthRejects(api_key) == api_key # SecretKey

\* auth.py lines 5-14: on_request of the variant gate; it has no key store
\* and needs no initialization.
AuthReceive(p, h) ==
    /\ pc[p] \in {"start", "serving"}
    /\ LET k == AuthApiKey(h)
           r == [NoReq EXCEPT !.headers = h, !.api_key = k]
       IN  IF AuthRejects(k)
           THEN /\ req' = [req EXCEPT ![p] =
                      [r EXCEPT !.outcome = UnauthorizedError]]
                /\ pc' = [pc EXCEPT ![p] = "done"]
           ELSE /\ req' = [req EXCEPT ![p] =
                      [r EXCEPT !.calls = 1, !.outcome = "pending"]]
                /\ pc' = [pc EXCEPT ![p] = "next"]
    /\ UNCHANGED <<db, tableExists, writer, pend, count, printed, initError>>
    /\ UNCHANGED <<server, reachable, cli, last>>

\* The header names and values handed to both variants: the credential
\* name in three casings, a generated token and the hard-coded key.
VariantNames == {NameCanonical, NameLower, NameUpper}
VariantValues == {TokenA, SecretKey}

\* Header mappings of at most two entries, with distinct names.
VariantHeaderMaps ==
    { << >> }
    \cup { << <<n, v>> >> : n \in VariantNames, v \in VariantValues }
    \cup { << <<n, v>>, <<m, w>> >> :
             <<n, v, m, w>> \in
                 { x \in VariantNames \X VariantValues
                              \X VariantNames \X VariantValues :
                       x[1] # x[3] } }

\* The same kind of request reaches the my_server.py gate and the auth.py
\* gate.
VariantRequest(p) == \E h \in VariantHeaderMaps : Receive(p, h)

AuthRequest(p) == \E h \in VariantHeaderMaps : AuthReceive(p, h)

----------------------------------------------------------------------------
\* The greet tool and MCPClient.call_tool

HelloPrefix == <<"H","e","l","l","o",","," ">>

\* greet that drops an empty name's punctuation.
greetNonEmpty(name) ==
    IF name = EmptyStr THEN HelloPrefix ELSE HelloPrefix \o name \o <<"!">>

\* my_server.py line 225: return f"Hello, {name}!".
greet(name) == HelloPrefix \o name \o <<"!">>

\* Names a caller passes to greet: the empty string, a plain name and one
\* with markup and punctuation characters.
GreetNames == { EmptyStr, <<"B","o","b">>, <<"<","!",">">> }

\* GreetArgs that passes the name under another key.
GreetArgsOtherKey(name) == << <<"user", name>> >>

\* my_client.py line 89: the arguments {"name": name}.
GreetArgs(name) == << <<"name", name>> >>

\* Tool names a caller passes to call_tool.
ToolNames == {GreetTool, "unknown"}

UnknownToolError == "ToolError: Unknown tool"

\* The URLs of the server processes.
Urls == {"http://p1/mcp", "http://p2/mcp"}

ServerAt(u) == IF u = "http://p1/mcp" THEN "p1" ELSE "p2"

\* Transport that sends the credential under another header name.
TransportOtherHeader(url, api_key) ==
    [url |-> url, headers |-> << <<NameAccept, api_key>> >>]

\* my_client.py lines 68-71: StreamableHttpTransport(self.url,
\* headers={"X-API-Key": self.api_key}).
Transport(url, api_key) == [url |-> url, headers |-> ClientHeaders(api_key)]

\* my_client.py lines 74-75: return result.
ReturnResult(r) == r

\* A line print() wrote: the result it was given, or the error of the
\* "Error: ..." line.
ResultLine(r) == [error |-> "None", result |-> r]

\* ErrorLine that prints a fixed text instead of the exception's message.
ErrorLineFixed(e) == [error |-> "Error", result |-> NoResult]

\* my_client.py line 155: print(f"Error: {e}").
ErrorLine(e) == [error |-> e, result |-> NoResult]

\* Handled that lets the exception pass (no except clause).
HandledNot(e) == e

\* my_client.py line 154: except Exception catches the exception.
Handled(e) == "None"

\* my_client.py lines 68-72: call_tool builds the transport and the Client
\* on it.
CallTool(u, k, t, n) ==
    /\ cli.phase \in {"idle", "greet"}
    /\ cli' = [cli EXCEPT !.phase = "connecting",
                          !.url = u,
                          !.api_key = k,
                          !.tool_name = t,
                          !.arguments = n,
                          !.transport = Transport(u, k)]
    /\ UNCHANGED <<db, tableExists, writer, pend, pc, count, printed>>
    /\ UNCHANGED <<initError, server, reachable, last, req>>

ClientCall ==
    /\ cli.phase = "idle"
    /\ \E u \in Urls, k \in HeaderValues, t \in ToolNames, n \in GreetNames :
        CallTool(u, k, t, GreetArgs(n))

\* my_client.py lines 40-49 and 77-89: greet(name) is entered on an
\* MCPClient(url, api_key).
ClientGreet ==
    /\ cli.phase = "idle"
    /\ \E u \in Urls, k \in HeaderValues, n \in GreetNames :
          cli' = [NoCall EXCEPT !.phase = "greet",
                                !.entry = "greet",
                                !.url = u,
                                !.api_key = k,
                                !.args = [url |-> u, api_key |-> k,
                                          name |-> n]]
    /\ UNCHANGED <<db, tableExists, writer, pend, pc, count, printed>>
    /\ UNCHANGED <<initError, server, reachable, last, req>>

\* my_client.py lines 149-153: run parses the command line, constructs
\* MCPClient(args.url, args.api_key) and enters greet(args.name).
AppRun ==
    /\ cli.phase = "idle"
    /\ \E u \in Urls, k \in HeaderValues, n \in GreetNames :
          LET a == [url |-> u, api_key |-> k, name |-> n]
          IN  cli' = [NoCall EXCEPT !.phase = "greet",
                                    !.entry = "run",
                                    !.url = a.url,
                                    !.api_key = a.api_key,
                                    !.args = a]
    /\ UNCHANGED <<db, tableExists, writer, pend, pc, count, printed>>
    /\ UNCHANGED <<initError, server, reachable, last, req>>

\* my_client.py line 89: self.call_tool("greet", {"name": name}).
GreetCalls ==
    /\ cli.phase = "greet"
    /\ CallTool(cli.url, cli.api_key, GreetTool, GreetArgs(cli.args.name))

\* Positions of a process that has no running server.
NotRunning == {"start", "created", "empty", "commit", "failed"}

\* my_client.py lines 73-74: the connection to the server at the URL is
\* open and call_tool issues the remote call.
ClientConnects ==
    /\ cli.phase = "connecting"
    /\ pc[ServerAt(cli.url)] \notin NotRunning
    /\ cli' = [cli EXCEPT !.phase = "calling",
                          !.sent = << [transport |-> cli.transport,
                                       tool_name |-> cli.tool_name,
                                       arguments |-> cli.arguments] >>]
    /\ UNCHANGED <<db, tableExists, writer, pend, pc, count, printed>>
    /\ UNCHANGED <<initError, server, reachable, last, req>>

\* ClientConnectFails that swallows the error: call_tool returns None.
ClientConnectFailsSwallowed ==
    /\ cli.phase = "connecting"
    /\ pc[ServerAt(cli.url)] \in NotRunning
    /\ cli' = [cli EXCEPT !.phase = "returned"]
    /\ UNCHANGED <<db, tableExists, writer, pend, pc, count, printed>>
    /\ UNCHANGED <<initError, server, reachable, last, req>>

\* my_client.py line 73: no server answers at the URL, the connection fails
\* and the exception leaves call_tool before the remote call.
ClientConnectFails ==
    /\ cli.phase = "connecting"
    /\ pc[ServerAt(cli.url)] \in NotRunning
    /\ cli' = [cli EXCEPT !.phase = "raised", !.error = "ConnectError"]
    /\ UNCHANGED <<db, tableExists, writer, pend, pc, count, printed>>
    /\ UNCHANGED <<initError, server, reachable, last, req>>

\* Whether requests to a server pass through the gate.
Gated(s) == Len(s.middleware) > 0 /\ s.middleware[1] = GateName

\* The server at the client's URL receives the remote call: the request goes
\* through the registered middleware, that is through on_request.
ServerReceive(p) ==
    /\ cli.phase = "calling"
    /\ ServerAt(cli.url) = p
    /\ req[p] = NoReq
    /\ IF Gated(server[p])
       THEN Receive(p, cli.sent[1].transport.headers)
       ELSE /\ pc[p] = "serving"
            /\ pc' = [pc EXCEPT ![p] = "next"]
            /\ req' = [req EXCEPT ![p].headers =
                                      cli.sent[1].transport.headers,
                                  ![p].calls = 1,
                                  ![p].outcome = "pending"]
            /\ UNCHANGED <<db, tableExists, writer, pend, count, printed>>
            /\ UNCHANGED <<initError, server, reachable, cli, last>>

\* my_server.py lines 167 and 214-225: the continuation dispatches the call
\* to the registered tool, greet, and on_request returns its result; a call
\* to a tool that is not registered fails.
ToolRuns(p) ==
    /\ pc[p] = "next"
    /\ cli.phase = "calling"
    /\ ServerAt(cli.url) = p
    /\ LET c == cli.sent[1]
       IN  IF \E i \in DOMAIN server[p].tools :
                  server[p].tools[i] = c.tool_name
           THEN req' = [req EXCEPT
                    ![p].downstream = greet(DictGet(c.arguments, "name")),
                    ![p].response =
                        PassThrough(greet(DictGet(c.arguments, "name"))),
                    ![p].outcome = "returned"]
           ELSE req' = [req EXCEPT ![p].outcome = UnknownToolError]
    /\ pc' = [pc EXCEPT ![p] = "done"]
    /\ UNCHANGED <<db, tableExists, writer, pend, count, printed, initError>>
    /\ UNCHANGED <<server, reachable, cli, last>>

\* RespondToClient of a server that a rejection brings down.
RespondToClientFatal(p) ==
    /\ pc[p] = "done"
    /\ cli.phase = "calling"
    /\ ServerAt(cli.url) = p
    /\ cli' = IF req[p].outcome = "returned"
              THEN [cli EXCEPT !.phase = "returned",
                               !.remote = req[p].response,
                               !.result = ReturnResult(req[p].response)]
              ELSE [cli EXCEPT !.phase = "raised",
                               !.error = req[p].outcome]
    /\ last' = [proc |-> p, outcome |-> req[p].outcome]
    /\ req' = [req EXCEPT ![p] = NoReq]
    /\ pc' = [pc EXCEPT ![p] =
             IF req[p].outcome = UnauthorizedError THEN "failed"
                                                   ELSE "serving"]
    /\ UNCHANGED <<db, tableExists, writer, pend, count, printed, initError>>
    /\ UNCHANGED <<server, reachable>>

\* The result or the exception of on_request reaches the client: call_tool
\* returns the result (line 75) or the exception leaves it.
RespondToClient(p) ==
    /\ pc[p] = "done"
    /\ cli.phase = "calling"
    /\ ServerAt(cli.url) = p
    /\ cli' = IF req[p].outcome = "returned"
              THEN [cli EXCEPT !.phase = "returned",
                               !.remote = req[p].response,
                               !.result = ReturnResult(req[p].response)]
              ELSE [cli EXCEPT !.phase = "raised",
                               !.error = req[p].outcome]
    /\ last' = [proc |-> p, outcome |-> req[p].outcome]
    /\ req' = [req EXCEPT ![p] = NoReq]
    /\ pc' = [pc EXCEPT ![p] = "serving"]
    /\ UNCHANGED <<db, tableExists, writer, pend, count, printed, initError>>
    /\ UNCHANGED <<server, reachable>>

\* my_client.py lines 89-90, call_tool has returned: greet prints the
\* result and returns.
GreetReturns ==
    /\ cli.entry \in {"greet", "run"}
    /\ cli.phase = "returned"
    /\ cli' = [cli EXCEPT !.phase = "greet_returned",
                          !.stdout = Append(@, ResultLine(cli.result))]
    /\ UNCHANGED <<db, tableExists, writer, pend, pc, count, printed>>
    /\ UNCHANGED <<initError, server, reachable, last, req>>

\* my_client.py line 89, call_tool has raised: the exception leaves greet
\* before print.
GreetRaises ==
    /\ cli.entry \in {"greet", "run"}
    /\ cli.phase = "raised"
    /\ cli' = [cli EXCEPT !.phase = "greet_raised"]
    /\ UNCHANGED <<db, tableExists, writer, pend, pc, count, printed>>
    /\ UNCHANGED <<initError, server, reachable, last, req>>

\* my_client.py lines 152-155: asyncio.run(client.greet(...)) has returned,
\* or it raised and the handler prints the error line; run returns.
RunReturns ==
    /\ cli.entry = "run"
    /\ cli.phase \in {"greet_returned", "greet_raised"}
    /\ cli' = [cli EXCEPT
                 !.phase = "run_returned",
                 !.error = Handled(@),
                 !.stdout = IF cli.phase = "greet_raised"
                            THEN Append(@, ErrorLine(cli.error))
                            ELSE @]
    /\ UNCHANGED <<db, tableExists, writer, pend, pc, count, printed>>
    /\ UNCHANGED <<initError, server, reachable, last, req>>

\* The phases in which the method the caller entered has returned or raised.
Finished(c) ==
    \/ c.entry = "call_tool" /\ c.phase \in {"returned", "raised"}
    \/ c.entry = "greet" /\ c.phase \in {"greet_returned", "greet_raised"}
    \/ c.entry = "run" /\ c.phase = "run_returned"

\* The caller has its result or its exception; the client is free for the
\* next call.
ClientDone ==
    /\ Finished(cli)
    /\ cli' = NoCall
    /\ UNCHANGED <<db, tableExists, writer, pend, pc, count, printed>>
    /\ UNCHANGED <<initError, server, reachable, last, req>>

----------------------------------------------------------------------------
\* Storage faults

\* The database file becomes unreachable (removed directory, full or
\* read-only disk) or reachable again.
MediumFails ==
    /\ reachable
    /\ reachable' = FALSE
    /\ UNCHANGED <<db, tableExists, writer, pend, pc, count, printed>>
    /\ UNCHANGED <<initError, server, cli, last, req>>

MediumRecovers ==
    /\ ~reachable
    /\ reachable' = TRUE
    /\ UNCHANGED <<db, tableExists, writer, pend, pc, count, printed>>
    /\ UNCHANGED <<initError, server, cli, last, req>>

\* InitFails that leaves the inserted row behind (no rollback on close).
InitFailsKeepsKey(p) ==
    /\ pc[p] \in {"start", "created", "empty", "commit"}
    /\ ~reachable
    /\ pc' = [pc EXCEPT ![p] = "failed"]
    /\ initError' = [initError EXCEPT ![p] = "OperationalError"]
    /\ db' = IF pend[p] # None THEN InsertRow(db, pend[p]) ELSE db
    /\ pend' = [pend EXCEPT ![p] = None]
    /\ writer' = IF writer = p THEN NoProc ELSE writer
    /\ server' = [server EXCEPT ![p] =
                     IF pc[p] = "start" THEN CallInitDb(@) ELSE @]
    /\ UNCHANGED <<tableExists, count, printed, reachable, cli, last, req>>

\* InitFails with the error swallowed: the construction goes on.
InitFailsSwallowed(p) ==
    /\ pc[p] \in {"start", "created", "empty", "commit"}
    /\ ~reachable
    /\ pc' = [pc EXCEPT ![p] = "serving"]
    /\ pend' = [pend EXCEPT ![p] = None]
    /\ writer' = IF writer = p THEN NoProc ELSE writer
    /\ server' = [server EXCEPT ![p] =
                     Construct(IF pc[p] = "start" THEN CallInitDb(@) ELSE @)]
    /\ UNCHANGED <<db, tableExists, count, printed, initError>>
    /\ UNCHANGED <<reachable, cli, last, req>>

\* my_server.py lines 77-90 with the storage unreachable: the statement
\* raises, the connection is closed (its open transaction is rolled back)
\* and the exception leaves init_db and MCPServer.__init__.
InitFails(p) ==
    /\ pc[p] \in {"start", "created", "empty", "commit"}
    /\ ~reachable
    /\ pc' = [pc EXCEPT ![p] = "failed"]
    /\ initError' = [initError EXCEPT ![p] = "OperationalError"]
    /\ pend' = [pend EXCEPT ![p] = None]
    /\ writer' = IF writer = p THEN NoProc ELSE writer
    /\ server' = [server EXCEPT ![p] =
                     IF pc[p] = "start" THEN CallInitDb(@) ELSE @]
    /\ UNCHANGED <<db, tableExists, count, printed, reachable, cli, last, req>>

----------------------------------------------------------------------------
\* Specifications

\* Positions inside init_db.
InitPcs == {"created", "empty", "commit"}

\* Two server processes on one database file, serving MCPClient requests.
Next ==
    \E p \in Procs :
        \/ InitCreate(p)
        \/ InitCount(p)
        \/ InitInsert(p)
        \/ InitInsertBusy(p)
        \/ InitCommit(p)
        \/ Restart(p)
        \/ ClientRequest(p)
        \/ ValidateQuery(p)
        \/ CallNextReturns(p)
        \/ Respond(p)

Spec == Init /\ [][Next]_vars

\* The process whose gate is handed arbitrary header mappings; the other
\* processes only initialize the shared database, and no process restarts.
GateProc == "p1"

NextGate ==
    \/ \E p \in Procs :
          \/ InitCreate(p)
          \/ InitCount(p)
          \/ InitInsert(p)
          \/ InitInsertBusy(p)
          \/ InitCommit(p)
    \/ Request(GateProc)
    \/ ValidateQuery(GateProc)
    \/ CallNextReturns(GateProc)
    \/ Respond(GateProc)

SpecGate == Init /\ [][NextGate]_vars

\* init_db calls one after the other: a process starts init_db only while no
\* other process is inside it.
SeqInitCreate(p) ==
    /\ \A q \in Procs \ {p} : pc[q] \notin InitPcs
    /\ InitCreate(p)

NextSeq ==
    \E p \in Procs :
        \/ SeqInitCreate(p)
        \/ InitCount(p)
        \/ InitInsert(p)
        \/ InitCommit(p)
        \/ Restart(p)
        \/ ClientRequest(p)
        \/ ValidateQuery(p)
        \/ CallNextReturns(p)
        \/ Respond(p)

SpecSeq == Init /\ [][NextSeq]_vars

\* Two server processes on one database file that may become unreachable,
\* and one MCPClient calling tools on them; no process restarts.
NextServer ==
    \/ \E p \in Procs :
          \/ InitCreate(p)
          \/ InitCount(p)
          \/ InitInsert(p)
          \/ InitInsertBusy(p)
          \/ InitCommit(p)
          \/ InitFails(p)
          \/ ServerReceive(p)
          \/ ValidateQuery(p)
          \/ ToolRuns(p)
          \/ RespondToClient(p)
    \/ ClientCall
    \/ ClientConnects
    \/ ClientConnectFails
    \/ ClientDone
    \/ MediumFails
    \/ MediumRecovers

SpecServer == Init /\ [][NextServer]_vars

\* Two server processes on one database file and one MCPClient on which
\* greet is called, directly or by MCPClientApp.run; no storage fault, no
\* restart.
NextClient ==
    \/ \E p \in Procs :
          \/ InitCreate(p)
          \/ InitCount(p)
          \/ InitInsert(p)
          \/ InitInsertBusy(p)
          \/ InitCommit(p)
          \/ ServerReceive(p)
          \/ ValidateQuery(p)
          \/ ToolRuns(p)
          \/ RespondToClient(p)
    \/ ClientGreet
    \/ AppRun
    \/ GreetCalls
    \/ ClientConnects
    \/ ClientConnectFails
    \/ GreetReturns
    \/ GreetRaises
    \/ RunReturns
    \/ ClientDone

SpecClient == Init /\ [][NextClient]_vars

\* One process with the my_server.py gate and one with the auth.py gate,
\* handed the same header mappings.
AuthProc == "p2"

NextVariants ==
    \/ InitCreate(GateProc)
    \/ InitCount(GateProc)
    \/ InitInsert(GateProc)
    \/ InitCommit(GateProc)
    \/ VariantRequest(GateProc)
    \/ ValidateQuery(GateProc)
    \/ AuthRequest(AuthProc)
    \/ \E p \in Procs :
          \/ CallNextReturns(p)
          \/ Respond(p)

SpecVariants == Init /\ [][NextVariants]_vars

----------------------------------------------------------------------------
\* Properties

\* Positions a process has only after its init_db call returned.
AfterInit == {"serving", "query", "next", "done"}

\* Positions a process has while it holds a request.
InRequest == {"query", "next", "done"}

\* The casings of the credential header name, written out.
CredentialCasings == {NameCanonical, NameLower, NameMixed, NameUpper}

\* The entries of a header mapping that name the credential header.
CredentialEntries(h) == { i \in DOMAIN h : h[i][1] \in CredentialCasings }

Accepted(r) == r.outcome = "returned"
Unauthorized(r) == r.outcome = UnauthorizedError

\* C1: whenever a validate_key call returns, its answer is True exactly when
\* its argument equals, character for character, the key of a row committed
\* at that moment.
C1_ValidateIffPresent ==
    [][\A p \in Procs :
         (req[p].vresults = << >> /\ req'[p].vresults # << >>)
            => req'[p].vresults = << req'[p].vargs[1] \in Keys(db) >>]_vars

\* C1 witness: with only TokenA stored, validate_key of its case variant
\* TokenB has returned False.
C1_Witness ==
    \E p \in Procs :
        /\ Keys(db) = {TokenA}
        /\ req[p].vargs = <<TokenB>>
        /\ req[p].vresults = <<FALSE>>

\* C2: a request whose credential validate_key accepted has call_next invoked
\* exactly once, returns what call_next returned, and no step of the gate
\* changes the store.
C2_ValidInv ==
    \A p \in Procs :
        req[p].vresults = <<TRUE>> =>
            /\ req[p].calls = 1
            /\ pc[p] \in {"next", "done"}
            /\ pc[p] = "done" =>
                  /\ Accepted(req[p])
                  /\ req[p].downstream \in NextResults
                  /\ req[p].response = req[p].downstream

C2_ValidPassThrough ==
    /\ []C2_ValidInv
    /\ [][req' # req => UNCHANGED <<db, tableExists, writer, pend>>]_vars

\* C2 witness: an accepted request has returned the continuation's result.
C2_Witness ==
    \E p \in Procs :
        /\ pc[p] = "done"
        /\ req[p].vresults = <<TRUE>>
        /\ req[p].calls = 1
        /\ req[p].response = ResultAuthenticated

\* C3: a request with no credential header, or whose credential validate_key
\* did not accept, ends with the Unauthorized ToolError, and call_next was
\* not invoked and produced nothing.
C3_InvalidRejected ==
    \A p \in Procs :
        (\/ req[p].vresults = <<FALSE>>
         \/ (pc[p] \in InRequest /\ CredentialEntries(req[p].headers) = {}))
        => /\ pc[p] = "done"
           /\ Unauthorized(req[p])
           /\ req[p].calls = 0
           /\ req[p].downstream = NoResult
           /\ req[p].response = NoResult

\* C3 witness: a request carrying only an unrelated header was rejected while
\* the value it carries is a stored key.
C3_Witness ==
    \E p \in Procs :
        /\ pc[p] = "done"
        /\ Len(req[p].headers) = 1
        /\ req[p].headers[1][1] = NameAccept
        /\ req[p].headers[1][2] \in Keys(db)
        /\ Unauthorized(req[p])

\* C4: for a request with exactly one credential header, in whichever casing,
\* validate_key is called exactly once, with that header's value, and the
\* request is accepted exactly when that call returned True.
C4_CaseInsensitive ==
    \A p \in Procs :
        \A i \in CredentialEntries(req[p].headers) :
            CredentialEntries(req[p].headers) = {i} =>
                /\ req[p].vargs = << req[p].headers[i][2] >>
                /\ pc[p] = "done" =>
                      /\ Accepted(req[p]) <=> req[p].vresults = <<TRUE>>
                      /\ Unauthorized(req[p]) <=> req[p].vresults = <<FALSE>>

\* C4 witness: a request whose credential header is spelled X-Api-Key, after
\* an unrelated header, was accepted.
C4_Witness ==
    \E p \in Procs :
        /\ pc[p] = "done"
        /\ Len(req[p].headers) = 2
        /\ req[p].headers[1][1] = NameAccept
        /\ req[p].headers[2][1] = NameMixed
        /\ Accepted(req[p])

\* C5: with init_db calls run one after the other from an empty store, the
\* store holds exactly one row once a call has returned, and a call that
\* finds the store non-empty inserts nothing.
C5_OneRow ==
    /\ Len(db) <= 1
    /\ (\E p \in Procs : pc[p] \in AfterInit) => Len(db) = 1

C5_SequentialInitOnce ==
    /\ []C5_OneRow
    /\ [][db # << >> => db' = db]_vars

\* C5 witness: two init_db calls have returned; one printed the key it
\* generated, the other generated none, and the store holds one row.
C5_Witness ==
    \E p, q \in Procs :
        /\ pc[p] = "serving" /\ pc[q] = "serving"
        /\ printed[p] # None /\ printed[q] = None
        /\ Len(db) = 1

\* C6: once every process has finished its concurrent init_db call on the
\* initially empty shared store, the store holds exactly one row.
C6_ConcurrentInitOneRow ==
    (\A p \in Procs : pc[p] \in AfterInit \cup {"failed"}) => Len(db) = 1

\* C7: a validate_key call whose argument is None or the empty string
\* returns False.
C7_NoneAndEmptyFalse ==
    \A p \in Procs :
        (req[p].vargs \in {<<None>>, <<EmptyStr>>} /\ req[p].vresults # << >>)
            => req[p].vresults = <<FALSE>>

\* C7 witness: validate_key("") has returned False against a seeded store.
C7_Witness ==
    \E p \in Procs :
        /\ db # << >>
        /\ req[p].vargs = <<EmptyStr>>
        /\ req[p].vresults = <<FALSE>>

\* C8 as claimed: a validate_key call whose argument is None or the empty
\* string opens no connection and issues no query.
C8_NoStorageForNoneOrEmpty ==
    \A p \in Procs :
        req[p].vargs \in {<<None>>, <<EmptyStr>>} => req[p].storage = << >>

\* C8 as amended: a validate_key call with None opens no connection and
\* issues no query; a call with the empty string opens one connection and,
\* by the time it returns, has issued one SELECT and closed the connection.
C8_StorageSkippedOnlyForNone ==
    \A p \in Procs :
        /\ req[p].vargs = <<None>> => req[p].storage = << >>
        /\ req[p].vargs = <<EmptyStr>> =>
              IF req[p].vresults = << >>
              THEN req[p].storage = <<"connect">>
              ELSE req[p].storage = <<"connect", "select", "close">>

\* C8 witness: validate_key(None) has returned False against a seeded store
\* without a storage operation.
C8_Witness ==
    \E p \in Procs :
        /\ db # << >>
        /\ req[p].vargs = <<None>>
        /\ req[p].vresults = <<FALSE>>
        /\ req[p].storage = << >>

\* C9: after init_db on an empty store, a finished request is the forwarded
\* one, with the continuation's result returned and validate_key True, when
\* its X-API-Key header carries the stored default token, and is otherwise
\* rejected with validate_key False and the continuation not invoked.
C9_EndToEnd ==
    \A p \in Procs :
        pc[p] = "done" =>
            /\ Len(db) = 1
            /\ db[1].key \in GenTokens
            /\ IF req[p].headers = ClientHeaders(db[1].key)
               THEN /\ req[p].vresults = <<TRUE>>
                    /\ Accepted(req[p])
                    /\ req[p].calls = 1
                    /\ req[p].response = req[p].downstream
                    /\ req[p].response \in NextResults
               ELSE /\ req[p].vresults = <<FALSE>>
                    /\ Unauthorized(req[p])
                    /\ req[p].calls = 0
                    /\ req[p].response = NoResult

\* C9 witness: one finished request carried the default token and was
\* forwarded, another carried a different token and was rejected.
C9_Witness ==
    \E p, q \in Procs :
        /\ pc[p] = "done" /\ pc[q] = "done"
        /\ req[p].headers = ClientHeaders(db[1].key)
        /\ Accepted(req[p])
        /\ req[q].headers # ClientHeaders(db[1].key)
        /\ req[q].api_key \in GenTokens
        /\ Unauthorized(req[q])

\* C10: the step of a validate_key call that touches the storage leaves the
\* committed rows, the schema, the write lock and every pending insert as
\* they were, leaves the requests of the other processes as they were, and
\* the answer it yields is the one the rows committed at that step give.
C10_ValidateReadOnly ==
    [][\A p \in Procs :
         Len(req'[p].storage) > Len(req[p].storage) =>
            /\ UNCHANGED <<db, tableExists, writer, pend>>
    /\ UNCHANGED <<reachable, cli, last>>
            /\ \A q \in Procs \ {p} : req'[q] = req[q]
            /\ req'[p].vresults # << >> =>
                  req'[p].vresults = << req[p].api_key \in Keys(db) >>]_vars

\* C10 witness: with two rows stored, one process's validate_key call for the
\* second row's key has returned True while another process's call for the
\* same key is connected and has not yet queried.
C10_Witness ==
    \E p, q \in Procs :
        /\ Len(db) = 2
        /\ req[p].vargs = << db[2].key >>
        /\ req[p].vresults = <<TRUE>>
        /\ pc[q] = "query"
        /\ req[q].vargs = << db[2].key >>


----------------------------------------------------------------------------
\* C11: in a hosting process init_db runs to completion exactly once before
\* any validate_key call is issued. A process that has called validate_key
\* has made exactly one init_db call, that call returned without an error,
\* the table exists, and the construction ran init_db first and created the
\* server and registered the gate only afterwards; a process whose init_db
\* has not returned has no server, no gate and no request.
BeforeInitReturns == {"start", "created", "empty", "commit", "failed"}

C11_InitBeforeValidate ==
    \A p \in Procs :
        /\ Len(req[p].vargs) > 0 =>
              /\ server[p].initCalls = 1
              /\ initError[p] = "None"
              /\ tableExists
              /\ server[p].steps =
                     <<"init_db", "FastMCP", "add_middleware", "tool">>
        /\ pc[p] \in BeforeInitReturns =>
              /\ ~server[p].mcp
              /\ server[p].middleware = << >>
              /\ server[p].initCalls <= 1
              /\ req[p] = NoReq

\* A process is inside validate_key while another one is still inside its
\* init_db call.
C11_Witness ==
    \E p \in Procs, q \in Procs :
        /\ pc[p] = "query"
        /\ Len(req[p].vargs) = 1
        /\ server[p].initCalls = 1
        /\ pc[q] \in InitPcs


----------------------------------------------------------------------------
\* C12: the gate sits in front of every handled request. A constructed
\* server has ApiKeyMiddleware as its first middleware, registered before
\* the greet tool; the continuation (the greet handler) is invoked only for a
\* request whose credential validate_key accepted, and a client that got a
\* result sent a stored token; handling requests changes nothing in the
\* server object or the gate, whose only state is the key store it reads.
C12_GateInv ==
    /\ \A p \in Procs :
          /\ pc[p] \in AfterInit =>
                /\ Len(server[p].middleware) = 1
                /\ server[p].middleware[1] = "ApiKeyMiddleware"
                /\ server[p].steps[3] = "add_middleware"
                /\ server[p].steps[4] = "tool"
                /\ server[p].tools = <<"greet">>
          /\ (pc[p] = "next" \/ req[p].calls > 0
                  \/ req[p].downstream # NoResult) =>
                /\ req[p].vresults = <<TRUE>>
                /\ req[p].api_key \in Keys(db)
    /\ cli.phase = "returned" => cli.api_key \in Keys(db)

C12_GateInFront ==
    /\ []C12_GateInv
    /\ [][\A p \in Procs :
             pc[p] \in AfterInit => server'[p] = server[p]]_vars

\* The greet handler has run for a request that the gate accepted.
C12_Witness ==
    \E p \in Procs :
        /\ pc[p] = "done"
        /\ req[p].outcome = "returned"
        /\ req[p].vresults = <<TRUE>>
        /\ Len(req[p].downstream) > 7
        /\ server[p].middleware = <<"ApiKeyMiddleware">>


----------------------------------------------------------------------------
\* C13: init_db fails with a storage error when the medium is unreachable or
\* the default-key insert violates uniqueness, and the failure is fatal. A
\* step of init_db taken while the medium is unreachable raises
\* OperationalError, and an insert goes through only for a token that is not
\* stored; a process whose init_db raised has no server, no middleware and
\* no tool, holds no request, has answered none, and stays failed.
C13_FailedInv ==
    \A p \in Procs :
        /\ pc[p] = "failed" <=> initError[p] # "None"
        /\ initError[p] \in {"None", "OperationalError", "IntegrityError"}
        /\ pc[p] = "failed" =>
              /\ ~server[p].mcp
              /\ server[p].middleware = << >>
              /\ server[p].tools = << >>
              /\ server[p].initCalls = 1
              /\ req[p] = NoReq
              /\ last.proc # p

C13_InitFailureFatal ==
    /\ []C13_FailedInv
    /\ [][\A p \in Procs :
             /\ (pc[p] \in {"start", "created", "empty", "commit"}
                   /\ pc'[p] # pc[p] /\ ~reachable) =>
                    (pc'[p] = "failed" /\ initError'[p] = "OperationalError")
             /\ (pc[p] = "empty" /\ pc'[p] = "commit") =>
                    ~ \E i \in DOMAIN db : db[i].key = pend'[p]
             /\ pc[p] = "failed" => pc'[p] = "failed"]_vars

\* A process whose init_db raised because the medium is unreachable, and a
\* client whose call to that process found no server.
C13_Witness ==
    \E p \in Procs :
        /\ pc[p] = "failed"
        /\ initError[p] = "OperationalError"
        /\ ~reachable
        /\ cli.phase = "raised"
        /\ cli.error = "ConnectError"
        /\ ServerAt(cli.url) = p


----------------------------------------------------------------------------
\* C14: concurrent initialization tolerates a unique-constraint violation on
\* the default-key insert as a benign race: no init_db call ends with the
\* IntegrityError of that insert, and no process is failed because of it.
\* init_db has no handler for the exception (lines 84-90), so this does not
\* hold: the process that hits the violation aborts its construction.
C14_UniqueViolationBenign ==
    \A p \in Procs :
        ~ (pc[p] = "failed" /\ initError[p] = "IntegrityError")


----------------------------------------------------------------------------
\* C15: a storage error raised during the key lookup of a request leaves
\* on_request as the failure of that one call. A lookup step taken while the
\* medium is unreachable ends the request with OperationalError; for such a
\* request validate_key returned nothing, the continuation was not invoked
\* and nothing was returned; the client's call raises that error; and when
\* the failure has been delivered the server is serving again, unchanged.
C15_LookupErrorInv ==
    /\ \A p \in Procs :
          req[p].outcome = "OperationalError" =>
              /\ pc[p] = "done"
              /\ req[p].vresults = << >>
              /\ req[p].calls = 0
              /\ req[p].downstream = NoResult
              /\ req[p].response = NoResult
    /\ cli.error = "OperationalError" =>
          (cli.phase = "raised" /\ cli.result = NoResult)

C15_LookupErrorPropagates ==
    /\ []C15_LookupErrorInv
    /\ [][\A p \in Procs :
             /\ (pc[p] = "query" /\ pc'[p] # "query" /\ ~reachable) =>
                    req'[p].outcome = "OperationalError"
             /\ (pc[p] = "serving" /\ pc'[p] # "serving" /\ ~reachable
                   /\ req'[p].api_key # None) =>
                    req'[p].outcome = "OperationalError"
             /\ (req[p].outcome = "OperationalError" /\ req'[p] # req[p]) =>
                    /\ pc'[p] = "serving"
                    /\ server'[p] = server[p]
                    /\ cli'.error = "OperationalError"
                    /\ UNCHANGED <<db, tableExists, writer, pend>>]_vars

\* The request answered last failed with the storage error, and the same
\* server has accepted the next request and is about to run the tool.
C15_Witness ==
    \E p \in Procs :
        /\ last = [proc |-> p, outcome |-> "OperationalError"]
        /\ pc[p] = "next"
        /\ req[p].vresults = <<TRUE>>


----------------------------------------------------------------------------
\* C16: no key is ever mutated or deleted. In every step, whatever init_db,
\* validate_key or on_request does, each record of the store is still there
\* afterwards, at its place, with the same id and the same token.
C16_KeysNeverChange ==
    [][\A i \in DOMAIN db : i \in DOMAIN db' /\ db'[i] = db[i]]_vars

\* The store holds two records, written by two init_db calls, and a request
\* has been validated against them and answered.
C16_Witness ==
    /\ Len(db) = 2
    /\ \E p \in Procs :
          /\ pc[p] = "done"
          /\ req[p].storage = <<"connect", "select", "close">>
          /\ req[p].outcome = "returned"

----------------------------------------------------------------------------
\* C17: in every reachable store state no two records share a token, and no
\* record has a null token, also when processes initialize concurrently or
\* again and the generator produces a token that is already stored.
C17_TokensUnique ==
    \A i \in DOMAIN db :
        /\ db[i].key # None
        /\ \A j \in DOMAIN db : db[i].key = db[j].key => i = j

\* An init_db call generated a token that another call had already stored:
\* its insert was refused and the store still holds that token once.
C17_Witness ==
    \E p \in Procs :
        /\ initError[p] = "IntegrityError"
        /\ printed[p] = None
        /\ Len(db) = 1


----------------------------------------------------------------------------
\* C18: an Unauthorized rejection is never retried and is not fatal. A
\* rejected request has exactly one validate_key call, which returned False,
\* and no call of the continuation; the step that rejects and the step that
\* delivers the rejection change neither the store nor the server object;
\* after the delivery the server is serving again and the client's call has
\* raised, with one remote call sent; and a request with a stored token is
\* forwarded to the continuation whatever was answered before.
C18_RejectedInv ==
    /\ \A p \in Procs :
          req[p].outcome =
              "ToolError: Unauthorized: Invalid or missing API Key" =>
              /\ pc[p] = "done"
              /\ Len(req[p].vargs) = 1
              /\ req[p].vresults = <<FALSE>>
              /\ req[p].calls = 0
              /\ req[p].downstream = NoResult
    /\ Len(cli.sent) <= 1

C18_RejectionNotFatal ==
    /\ []C18_RejectedInv
    /\ [][\A p \in Procs :
             /\ (Unauthorized(req'[p]) /\ ~Unauthorized(req[p])) =>
                    UNCHANGED <<db, tableExists, writer, pend, server>>
             /\ (Unauthorized(req[p]) /\ req'[p] # req[p]) =>
                    /\ pc'[p] = "serving"
                    /\ req'[p] = NoReq
                    /\ cli'.phase = "raised"
                    /\ Len(cli'.sent) = 1
                    /\ UNCHANGED <<db, tableExists, writer, pend, server>>
             /\ (pc[p] = "query" /\ pc'[p] # "query" /\ reachable
                   /\ req[p].api_key \in Keys(db)) =>
                    (pc'[p] = "next" /\ req'[p].calls = 1)]_vars

\* The request answered last was rejected, and the same server has
\* forwarded the next request, which carries a stored token.
C18_Witness ==
    \E p \in Procs :
        /\ last.proc = p
        /\ last.outcome =
               "ToolError: Unauthorized: Invalid or missing API Key"
        /\ pc[p] = "next"
        /\ req[p].calls = 1
        /\ req[p].api_key \in Keys(db)


----------------------------------------------------------------------------
\* C19: greet(name) returns "Hello, " followed by name followed by "!" for
\* every name, the empty one included (greet("") = "Hello, !"): the result
\* is 8 characters longer than the name, starts with "Hello, ", carries the
\* name unchanged (markup and punctuation characters as they are) and ends
\* with "!"; and a dispatched greet call always returns.
C19_GreetInv ==
    \A p \in Procs :
        req[p].downstream # NoResult =>
            LET r == req[p].downstream
                name == cli.arguments[1][2]
            IN  /\ Len(r) = Len(name) + 8
                /\ SubSeq(r, 1, 7) = <<"H", "e", "l", "l", "o", ",", " ">>
                /\ SubSeq(r, 8, 7 + Len(name)) = name
                /\ r[Len(r)] = "!"
                /\ name = << >> =>
                       r = <<"H", "e", "l", "l", "o", ",", " ", "!">>

C19_GreetTemplate ==
    /\ []C19_GreetInv
    /\ [][\A p \in Procs :
             (pc[p] = "next" /\ pc'[p] # "next"
                  /\ cli.tool_name = "greet") =>
                 (req'[p].outcome = "returned"
                      /\ req'[p].downstream # NoResult)]_vars

\* greet has run for the empty name.
C19_Witness ==
    \E p \in Procs :
        /\ pc[p] = "done"
        /\ cli.arguments = << <<"name", << >> >> >>
        /\ req[p].downstream = <<"H", "e", "l", "l", "o", ",", " ", "!">>


----------------------------------------------------------------------------
\* C20: every MCPClient.call_tool(tool_name, arguments) call builds its
\* transport with the client's URL and the one header X-API-Key whose value
\* is the client's api_key, issues exactly one remote call with tool_name
\* and arguments as given, and returns the result of that call unchanged.
C20_CallInv ==
    /\ cli.phase # "idle" =>
          /\ cli.transport.url = cli.url
          /\ cli.transport.headers =
                 << << <<"X", "-", "A", "P", "I", "-", "K", "e", "y">>,
                       cli.api_key >> >>
          /\ Len(cli.sent) <= 1
    /\ cli.phase \in {"calling", "returned"} =>
          /\ Len(cli.sent) = 1
          /\ cli.sent[1].transport = cli.transport
          /\ cli.sent[1].tool_name = cli.tool_name
          /\ cli.sent[1].arguments = cli.arguments
    /\ cli.phase = "returned" =>
          (cli.result = cli.remote /\ cli.remote # NoResult)
    /\ cli.phase # "returned" => cli.result = NoResult

C20_CallToolOneCall ==
    /\ []C20_CallInv
    /\ [][/\ (cli.phase # "idle" /\ cli'.phase # "idle") =>
                 /\ cli.phase # "connecting" => cli'.sent = cli.sent
                 /\ cli'.transport = cli.transport
                 /\ cli'.url = cli.url
                 /\ cli'.api_key = cli.api_key
          /\ (cli.phase = "calling" /\ cli'.phase = "returned") =>
                 /\ cli'.result = req[ServerAt(cli.url)].response
                 /\ req[ServerAt(cli.url)].headers =
                        cli.sent[1].transport.headers]_vars

\* A call_tool call on the second server has returned the greeting of a
\* non-empty name.
C20_Witness ==
    /\ cli.phase = "returned"
    /\ cli.url = "http://p2/mcp"
    /\ Len(cli.arguments[1][2]) = 3
    /\ Len(cli.result) = 11
    /\ last.proc = "p2"


----------------------------------------------------------------------------
\* C21: MCPClient.call_tool propagates failures to its caller unchanged. If
\* opening the connection fails, the call raises that error and no remote
\* call was made; if the remote call fails, the call raises the error the
\* server answered with; a call that raised has no result, a call that
\* returned has no error, and after a failure the call never returns a
\* result.
C21_FailureInv ==
    /\ cli.phase = "raised" =>
          /\ cli.error # "None"
          /\ cli.result = NoResult
          /\ cli.remote = NoResult
    /\ cli.phase = "returned" => (cli.error = "None" /\ Len(cli.sent) = 1)
    /\ cli.error = "ConnectError" => (cli.phase = "raised" /\ cli.sent = << >>)
    /\ (cli.error # "None" /\ cli.error # "ConnectError") =>
          Len(cli.sent) = 1

C21_CallToolPropagates ==
    /\ []C21_FailureInv
    /\ [][/\ (cli.phase = "connecting" /\ cli' # cli
                 /\ pc[ServerAt(cli.url)] \in
                        {"start", "created", "empty", "commit", "failed"}) =>
                /\ cli'.phase = "raised"
                /\ cli'.error = "ConnectError"
                /\ cli'.sent = << >>
          /\ (cli.phase = "calling" /\ cli' # cli
                 /\ req[ServerAt(cli.url)].outcome # "returned") =>
                /\ cli'.phase = "raised"
                /\ cli'.error = req[ServerAt(cli.url)].outcome
          /\ (cli.phase = "raised" /\ cli' # cli) =>
                cli'.phase \notin {"returned", "calling", "connecting"}]_vars

\* A call whose connection failed has raised without a remote call, after
\* an earlier call was answered by the other server with a storage error.
C21_Witness ==
    /\ cli.phase = "raised"
    /\ cli.error = "ConnectError"
    /\ cli.sent = << >>
    /\ last.outcome = "OperationalError"
    /\ last.proc # ServerAt(cli.url)


----------------------------------------------------------------------------
\* C22: MCPClient.greet(name) invokes call_tool exactly once, with the tool
\* name "greet" and the arguments {"name": name} on the client's URL and
\* key, prints the returned result, and lets an error of call_tool pass
\* without printing anything. call_tool is entered only from the start of
\* greet, so never a second time.
C22_GreetInv ==
    /\ (cli.entry = "greet" /\ cli.phase \notin {"idle", "greet"}) =>
          /\ cli.tool_name = "greet"
          /\ cli.arguments = << <<"name", cli.args.name>> >>
          /\ cli.url = cli.args.url
          /\ cli.api_key = cli.args.api_key
          /\ Len(cli.sent) <= 1
    /\ (cli.entry = "greet" /\ cli.phase = "greet_returned") =>
          /\ cli.result # NoResult
          /\ cli.stdout = << [error |-> "None", result |-> cli.result] >>
    /\ (cli.entry = "greet" /\ cli.phase # "greet_returned") =>
          cli.stdout = << >>
    /\ (cli.entry = "greet" /\ cli.phase = "greet_raised") =>
          cli.error # "None"

C22_GreetCallsOnce ==
    /\ []C22_GreetInv
    /\ [][cli.entry = "greet" =>
             /\ (cli'.phase = "connecting" /\ cli' # cli) =>
                    cli.phase = "greet"
             /\ (cli.phase = "returned" /\ cli' # cli) =>
                    cli'.phase = "greet_returned"
             /\ (cli.phase = "raised" /\ cli' # cli) =>
                    (cli'.phase = "greet_raised" /\ cli'.error = cli.error)
             /\ (cli.phase \in {"greet_returned", "greet_raised"}
                    /\ cli' # cli) => cli'.phase = "idle"]_vars

\* greet("Bob") has printed the greeting the server returned.
C22_Witness ==
    /\ cli.entry = "greet"
    /\ cli.phase = "greet_returned"
    /\ cli.args.name = <<"B", "o", "b">>
    /\ cli.stdout[1].result =
           <<"H", "e", "l", "l", "o", ",", " ", "B", "o", "b", "!">>

----------------------------------------------------------------------------
\* C23: MCPClientApp.run constructs the client from the parsed URL and API
\* key and handles every exception raised while greeting: it prints the
\* error line with the exception's message and returns normally, so no
\* exception leaves run; when greet returned, run prints nothing more.
C23_RunInv ==
    /\ (cli.entry = "run" /\ cli.phase # "idle") =>
          (cli.url = cli.args.url /\ cli.api_key = cli.args.api_key)
    /\ (cli.entry = "run" /\ cli.phase = "run_returned") =>
          /\ cli.error = "None"
          /\ Len(cli.stdout) = 1

----------------------------------------------------------------------------
\* C24: the gate variants handle the case of the header name differently.
\* For a header mapping whose only credential entry has a differently cased
\* name ("x-api-key" or "X-API-KEY"), the auth.py gate rejects the request
\* with ToolError before call_next, even when the entry carries its
\* hard-coded key, while the my_server.py gate forwards the request when the
\* entry carries a stored token; under the exact name "X-API-Key" the
\* auth.py gate forwards its hard-coded key.
OtherCasings ==
    { <<"x", "-", "a", "p", "i", "-", "k", "e", "y">>,
      <<"X", "-", "A", "P", "I", "-", "K", "E", "Y">> }

ExactCasing == <<"X", "-", "A", "P", "I", "-", "K", "e", "y">>

C24_VariantsDifferOnCase ==
    /\ pc["p2"] \in {"next", "done"} =>
          LET h == req["p2"].headers
          IN  /\ (Len(h) = 1 /\ h[1][1] \in OtherCasings) =>
                    /\ req["p2"].outcome =
                     "ToolError: Unauthorized: Invalid or missing API Key"
                    /\ req["p2"].calls = 0
                    /\ req["p2"].downstream = NoResult
              /\ (Len(h) = 1 /\ h[1][1] = ExactCasing
                    /\ h[1][2] = SecretKey) => req["p2"].calls = 1
    /\ pc["p1"] \in {"next", "done"} =>
          LET h == req["p1"].headers
          IN  (Len(h) = 1 /\ h[1][1] \in OtherCasings
                 /\ h[1][2] \in Keys(db)) =>
                    (req["p1"].calls = 1 /\ req["p1"].vresults = <<TRUE>>)

\* Both gates hold a request with the same header mapping, whose credential
\* is under "x-api-key": the my_server.py gate has forwarded it, the auth.py
\* gate has rejected it.
C24_Witness ==
    /\ req["p1"].headers = req["p2"].headers
    /\ Len(req["p1"].headers) = 1
    /\ req["p1"].headers[1][1] = <<"x", "-", "a", "p", "i", "-", "k", "e", "y">>
    /\ pc["p1"] = "next"
    /\ req["p1"].calls = 1
    /\ pc["p2"] = "done"
    /\ req["p2"].calls = 0


----------------------------------------------------------------------------
\* C25: init_db is atomic with respect to failure. The step in which an
\* init_db call raises, at whatever position, leaves the committed records
\* as they were and drops the call's uncommitted insert; a failed call holds
\* neither a pending row nor the write lock; every stored record was written
\* by a call that returned; and when one call has failed and another has
\* returned, the store holds exactly one key.
C25_FailedInitInv ==
    /\ \A p \in Procs :
          pc[p] = "failed" => (pend[p] = None /\ writer # p)
    /\ \A i \in DOMAIN db :
          \E q \in Procs : pc[q] \in AfterInit /\ printed[q] = db[i].key
    /\ Len(db) =
          Cardinality({q \in Procs : pc[q] \in AfterInit /\ printed[q] # None})
    /\ \A p \in Procs, q \in Procs :
          (pc[p] = "failed" /\ pc[q] \in AfterInit) => Len(db) = 1

C25_InitFailureAtomic ==
    /\ []C25_FailedInitInv
    /\ [][\A p \in Procs :
             (pc'[p] = "failed" /\ pc[p] # "failed") =>
                 /\ db' = db
                 /\ pend'[p] = None
                 /\ writer' # p]_vars

\* An init_db call failed at its commit, after it had inserted and printed
\* a key; the store stayed empty and a later call of the other process
\* seeded it with its one key.
C25_Witness ==
    \E p \in Procs, q \in Procs :
        /\ pc[p] = "failed"
        /\ initError[p] = "OperationalError"
        /\ printed[p] # None
        /\ pc[q] = "serving"
        /\ printed[q] # None
        /\ printed[q] # printed[p]
        /\ Len(db) = 1
        /\ db[1].key = printed[q]

====
